---------------------------- MODULE Spec2Model ----------------------------
(***************************************************************************)
(* Boom/bust cycle segmentation of environ/utils/computations.py, the swap *)
(* download of scripts/fetch_swap_transactions_v2.py and the portfolio     *)
(* sorting of environ/process/asset_pricing/double_sorting.py.             *)
(*                                                                         *)
(* A data frame is a sequence of rows [time |-> t, price |-> p]; pandas'   *)
(* positional index i (0-based, after reset_index) is row i + 1 here.      *)
(* boom_change and bust_change are floats in the source; they are kept as  *)
(* exact fractions <<num, den>> and every threshold comparison is cross    *)
(* multiplied.  For the integer prices and the fractions 3/10 and 1/2 used *)
(* below, the float64 comparison of the source gives the same truth value  *)
(* as the exact one.                                                       *)
(***************************************************************************)
EXTENDS Integers, Sequences, FiniteSets, TLC

VARIABLES
    observations,    \* the time_price argument of the call (never reassigned)
    time_price,      \* the local time_price, re-windowed by every iteration
    boom_change,     \* <<num, den>>
    bust_change,     \* <<num, den>>
    boom_bust_list,  \* the segments emitted so far
    end,             \* the cursor
    previous_trend,
    cycle_dict,      \* the result of the latest scan
    branch,          \* the stitching branch the latest iteration took
    iterations,      \* number of loop iterations executed
    provenance,      \* per segment: how the scans produced it (history)
    boom_bust_dict,  \* the mapping boom_bust builds from the returned list
    pc,              \* boom_bust_periods: "start", "loop", "done", "raised";
                     \* boom_bust: "projected"; a direct call of
                     \* boom_bust_one_period: "scan", "validated", "returned";
                     \* query_swaps_trading_v2: "batch0", "batches", "dropped";
                     \* _sorting: "sorting", "sorted"; asset_pricing:
                     \* "periods", "evaluated"
    error,           \* the exception that ended the call, "" when none
    \* query_swaps_trading_v2
    subgraph,            \* the swaps the subgraph holds, by ascending timestamp
    start_timestamp,
    end_timestamp,
    first,               \* the batch size of the two queries
    df_all_swaps,
    swaps_iter,
    iter_count,
    total_swaps_amount,
    \* _sorting and asset_pricing
    df_panel_period,
    n_port,
    zero_value_portfolio,
    df_portfolio,
    ret_dict,
    date_list,
    processed            \* number of periods of date_list the loop has done

cycleVars == <<observations, time_price, boom_change, bust_change,
               boom_bust_list, end, previous_trend, cycle_dict, branch,
               iterations, provenance, boom_bust_dict>>

fetchVars == <<subgraph, start_timestamp, end_timestamp, first, df_all_swaps,
               swaps_iter, iter_count, total_swaps_amount>>

portVars == <<df_panel_period, n_port, zero_value_portfolio, df_portfolio,
              ret_dict, date_list, processed>>

vars == <<cycleVars, fetchVars, portVars, pc, error>>

\* the variables of a function that is not being called
FetchIdle ==
    /\ subgraph = <<>>
    /\ start_timestamp = 0
    /\ end_timestamp = 0
    /\ first = 0
    /\ df_all_swaps = <<>>
    /\ swaps_iter = <<>>
    /\ iter_count = 0
    /\ total_swaps_amount = 0

PortIdle ==
    /\ df_panel_period = <<>>
    /\ n_port = 0
    /\ zero_value_portfolio = FALSE
    /\ df_portfolio = <<>>
    /\ ret_dict = <<>>
    /\ date_list = <<>>
    /\ processed = 0

---------------------------------------------------------------------------
(* Bounds of the inputs. *)

MaxLen == 5
MaxPrice == 4
MaxMagnitude == 2

(* The fractions boom_change and bust_change are drawn from: the default   *)
(* 0.3 and 0.5.                                                            *)
Changes == {<<3, 10>>, <<1, 2>>}

---------------------------------------------------------------------------
(* Data frame helpers. *)

Row(t, p) == [time |-> t, price |-> p]

\* the segmenter's variables while another function is being called
CycleIdle ==
    /\ observations = <<>>
    /\ time_price = <<>>
    /\ boom_change = <<0, 1>>
    /\ bust_change = <<0, 1>>
    /\ boom_bust_list = <<>>
    /\ end = 0
    /\ previous_trend = "none"
    /\ cycle_dict = [main_trend |-> "unset"]
    /\ branch = "unset"
    /\ iterations = 0
    /\ provenance = <<>>
    /\ boom_bust_dict = <<>>

\* time_price["price"][i], time_price["time"][i]
price(df, i) == df[i + 1].price
time(df, i) == df[i + 1].time

\* time_price["time"].iloc[-1]
iloc_last_time(df) == df[Len(df)].time

RECURSIVE InsertByTime(_, _)
InsertByTime(row, sorted) ==
    IF sorted = <<>> THEN <<row>>
    ELSE IF row.time < Head(sorted).time THEN <<row>> \o sorted
    ELSE <<Head(sorted)>> \o InsertByTime(row, Tail(sorted))

\* time_price.sort_values(by="time").reset_index(drop=True)
RECURSIVE sort_values(_)
sort_values(df) ==
    IF df = <<>> THEN <<>>
    ELSE InsertByTime(Head(df), sort_values(Tail(df)))

\* mutant of Window: the row at the cursor is left out
Window_Strict(df, cursor) == SelectSeq(df, LAMBDA row : row.time > cursor)

\* mutant of Window: the frame is not filtered
Window_Unfiltered(df, cursor) == df

\* time_price[time_price["time"] >= end].reset_index(drop=True)
Window(df, cursor) == SelectSeq(df, LAMBDA row : row.time >= cursor)

---------------------------------------------------------------------------
(* boom_bust_one_period *)

\* mutant of AboveBoom: a price equal to the threshold counts as a crossing
AboveBoom_NonStrict(p, p0, change) == p * change[2] >= p0 * (change[2] + change[1])

\* p > p0 * (1 + change)
AboveBoom(p, p0, change) == p * change[2] > p0 * (change[2] + change[1])

\* p < p0 * (1 - change)
BelowBust(p, p0, change) == p * change[2] < p0 * (change[2] - change[1])

Indices(df) == [i \in 1..Len(df) |-> i - 1]

\* np.where(time_price["price"] > boom_threshold)[0]
where_boom(df, change) ==
    SelectSeq(Indices(df), LAMBDA i : AboveBoom(price(df, i), price(df, 0), change))

\* np.where(time_price["price"] < bust_threshold)[0]
where_bust(df, change) ==
    SelectSeq(Indices(df), LAMBDA i : BelowBust(price(df, i), price(df, 0), change))

\* mutant of WalkDown: an equal price does not stop the walk
RECURSIVE WalkDown_NonStrict(_, _)
WalkDown_NonStrict(df, cycle_end) ==
    IF cycle_end + 1 < Len(df) /\ price(df, cycle_end + 1) <= price(df, cycle_end)
    THEN WalkDown_NonStrict(df, cycle_end + 1)
    ELSE cycle_end

\* mutant of WalkUp: the boom walk compares the way the bust walk does
RECURSIVE WalkUp_Downward(_, _)
WalkUp_Downward(df, cycle_end) ==
    IF cycle_end + 1 < Len(df) /\ price(df, cycle_end + 1) < price(df, cycle_end)
    THEN WalkUp_Downward(df, cycle_end + 1)
    ELSE cycle_end

\* mutant of WalkUp: the walk ends on the step that broke the rise
RECURSIVE WalkUp_OneTooFar(_, _)
WalkUp_OneTooFar(df, cycle_end) ==
    IF cycle_end + 1 < Len(df)
    THEN IF price(df, cycle_end + 1) > price(df, cycle_end)
         THEN WalkUp_OneTooFar(df, cycle_end + 1)
         ELSE cycle_end + 1
    ELSE cycle_end

\* mutant of WalkUp: the walk stops at the crossing itself
WalkUp_OneStep(df, cycle_end) ==
    IF cycle_end + 1 < Len(df) /\ price(df, cycle_end + 1) > price(df, cycle_end)
    THEN cycle_end + 1
    ELSE cycle_end

\* the while loops extending cycle_end
RECURSIVE WalkDown(_, _)
WalkDown(df, cycle_end) ==
    IF cycle_end + 1 < Len(df) /\ price(df, cycle_end + 1) < price(df, cycle_end)
    THEN WalkDown(df, cycle_end + 1)
    ELSE cycle_end

RECURSIVE WalkUp(_, _)
WalkUp(df, cycle_end) ==
    IF cycle_end + 1 < Len(df) /\ price(df, cycle_end + 1) > price(df, cycle_end)
    THEN WalkUp(df, cycle_end + 1)
    ELSE cycle_end

\* np.argmin / np.argmax over price.iloc[:n]: position of the first extreme
RECURSIVE ArgScan(_, _, _, _, _)
ArgScan(df, n, i, best, wantMin) ==
    IF i >= n THEN best
    ELSE IF (wantMin /\ price(df, i) < price(df, best))
            \/ (~wantMin /\ price(df, i) > price(df, best))
         THEN ArgScan(df, n, i + 1, i, wantMin)
         ELSE ArgScan(df, n, i + 1, best, wantMin)

\* mutant of argmin: the last position of the minimum
argmin_last(df, n) ==
    CHOOSE k \in 0..(n - 1) :
        /\ \A j \in 0..(n - 1) : price(df, k) <= price(df, j)
        /\ \A j \in (k + 1)..(n - 1) : price(df, j) # price(df, k)

argmin(df, n) == ArgScan(df, n, 1, 0, TRUE)
argmax(df, n) == ArgScan(df, n, 1, 0, FALSE)

\* mutant of Classify: a boom crossing wins wherever the bust crossing is
Classify_BoomPriority(df, boom_chg, bust_chg) ==
    LET boom == where_boom(df, boom_chg)
        bust == where_bust(df, bust_chg)
    IN  IF Len(boom) > 0
        THEN [main_trend |-> "boom", cycle_end |-> WalkUp(df, boom[1] - 1)]
        ELSE IF Len(bust) > 0
             THEN [main_trend |-> "bust", cycle_end |-> WalkDown(df, bust[1] - 1)]
             ELSE [main_trend |-> "none", cycle_end |-> Len(df) - 1]

\* mutant of Classify: the arm of line 59 spells its label differently
Classify_MislabelledBust(df, boom_chg, bust_chg) ==
    LET boom == where_boom(df, boom_chg)
        bust == where_bust(df, bust_chg)
    IN  IF Len(boom) > 0
        THEN IF Len(bust) > 0 /\ bust[1] < boom[1]
             THEN [main_trend |-> "bust", cycle_end |-> WalkDown(df, bust[1] - 1)]
             ELSE [main_trend |-> "boom", cycle_end |-> WalkUp(df, boom[1] - 1)]
        ELSE IF Len(bust) > 0
             THEN [main_trend |-> "burst", cycle_end |-> WalkDown(df, bust[1] - 1)]
             ELSE [main_trend |-> "none", cycle_end |-> Len(df) - 1]

\* mutant of Classify: a window without a crossing ends one observation
\* before its last one
Classify_NoneEndsEarly(df, boom_chg, bust_chg) ==
    LET boom == where_boom(df, boom_chg)
        bust == where_bust(df, bust_chg)
    IN  IF Len(boom) > 0
        THEN IF Len(bust) > 0 /\ bust[1] < boom[1]
             THEN [main_trend |-> "bust", cycle_end |-> WalkDown(df, bust[1] - 1)]
             ELSE [main_trend |-> "boom", cycle_end |-> WalkUp(df, boom[1] - 1)]
        ELSE IF Len(bust) > 0
             THEN [main_trend |-> "bust", cycle_end |-> WalkDown(df, bust[1] - 1)]
             ELSE [main_trend |-> "none",
                   cycle_end |-> IF Len(df) > 2 THEN Len(df) - 2 ELSE Len(df) - 1]

\* lines 34-61: the trend and the index cycle_end (none has no cycle_end; the
\* last position stands for it, since its end is time.iloc[-1])
Classify(df, boom_chg, bust_chg) ==
    LET boom == where_boom(df, boom_chg)
        bust == where_bust(df, bust_chg)
    IN  IF Len(boom) > 0
        THEN IF Len(bust) > 0 /\ bust[1] < boom[1]
             THEN [main_trend |-> "bust", cycle_end |-> WalkDown(df, bust[1] - 1)]
             ELSE [main_trend |-> "boom", cycle_end |-> WalkUp(df, boom[1] - 1)]
        ELSE IF Len(bust) > 0
             THEN [main_trend |-> "bust", cycle_end |-> WalkDown(df, bust[1] - 1)]
             ELSE [main_trend |-> "none", cycle_end |-> Len(df) - 1]

\* mutant of PreTrendEnd: only a boom carries pre_trend_end
PreTrendEnd_BoomOnly(df, c) ==
    IF c.main_trend = "boom"
    THEN ("pre_trend_end" :> time(df, argmin(df, c.cycle_end + 1)))
    ELSE [x \in {} |-> 0]

\* mutant of PreTrendEnd: a bust looks for the lowest price as a boom does
PreTrendEnd_AlwaysArgmin(df, c) ==
    IF c.main_trend \in {"boom", "bust"}
    THEN ("pre_trend_end" :> time(df, argmin(df, c.cycle_end + 1)))
    ELSE [x \in {} |-> 0]

\* mutant of PreTrendEnd: the previous trend is taken to end where the cycle
\* ends
PreTrendEnd_AtCycleEnd(df, c) ==
    IF c.main_trend \in {"boom", "bust"}
    THEN ("pre_trend_end" :> time(df, c.cycle_end))
    ELSE [x \in {} |-> 0]

\* lines 35-38, 45-46 and 53-54: the trend and the index cycle_end holds when
\* the while loop is reached (the last position for none, which has no loop)
CrossingArm(df, boom_chg, bust_chg) ==
    LET boom == where_boom(df, boom_chg)
        bust == where_bust(df, bust_chg)
    IN  IF Len(boom) > 0
        THEN IF Len(bust) > 0 /\ bust[1] < boom[1]
             THEN [main_trend |-> "bust", cycle_end |-> bust[1] - 1]
             ELSE [main_trend |-> "boom", cycle_end |-> boom[1] - 1]
        ELSE IF Len(bust) > 0
             THEN [main_trend |-> "bust", cycle_end |-> bust[1] - 1]
             ELSE [main_trend |-> "none", cycle_end |-> Len(df) - 1]

\* the labels boom_bust_one_period looks up in time_price["price"] and
\* time_price["time"], lines 28-69.  The loop condition reads cycle_end + 1
\* and then cycle_end; when cycle_end is -1 the second lookup is the last one
\* the call makes.
IndexReads(df, boom_chg, bust_chg) ==
    LET arm == CrossingArm(df, boom_chg, bust_chg)
    IN  IF arm.main_trend = "none" THEN {0}
        ELSE IF arm.cycle_end < 0 THEN {0, arm.cycle_end + 1, arm.cycle_end}
        ELSE LET c == Classify(df, boom_chg, bust_chg)
                 extreme == IF c.main_trend = "boom"
                            THEN argmin(df, c.cycle_end + 1)
                            ELSE argmax(df, c.cycle_end + 1)
             IN  {0, extreme}
                     \cup (arm.cycle_end..c.cycle_end)
                     \cup {i \in {c.cycle_end + 1} : i < Len(df)}

\* a lookup by a label that is not in the frame's RangeIndex raises KeyError
RaisesKeyError(df, boom_chg, bust_chg) ==
    \E i \in IndexReads(df, boom_chg, bust_chg) : i \notin 0..(Len(df) - 1)

\* lines 63-69
PreTrendEnd(df, c) ==
    IF c.main_trend = "boom"
    THEN ("pre_trend_end" :> time(df, argmin(df, c.cycle_end + 1)))
    ELSE IF c.main_trend = "bust"
    THEN ("pre_trend_end" :> time(df, argmax(df, c.cycle_end + 1)))
    ELSE [x \in {} |-> 0]

boom_bust_one_period(df, boom_chg, bust_chg) ==
    LET c == Classify(df, boom_chg, bust_chg)
    IN  [main_trend |-> c.main_trend,
         end |-> time(df, c.cycle_end),
         start |-> time(df, 0)] @@ PreTrendEnd(df, c)

---------------------------------------------------------------------------
(* boom_bust_periods *)

Segment(trend, s, e) == [main_trend |-> trend, start |-> s, end |-> e]

\* boom_bust_list[-1]["end"] = e
SetLastEnd(list, e) == [list EXCEPT ![Len(list)].end = e]

\* which of the four arms of lines 85-113 runs
StitchBranch(cycle, prev) ==
    IF cycle.main_trend # "none" /\ prev # "none"
    THEN IF cycle.main_trend = prev THEN "merge"
         ELSE IF "pre_trend_end" \in DOMAIN cycle THEN "flip_pre_trend_end"
         ELSE "flip_cursor"
    ELSE "append"

\* mutant of Stitch: a flip appends the new segment and leaves the previous
\* segment's end where it was
Stitch_FlipKeepsLastEnd(list, cycle, cursor, prev) ==
    LET arm == StitchBranch(cycle, prev)
    IN  IF arm = "merge" THEN SetLastEnd(list, cycle.end)
        ELSE IF arm = "flip_pre_trend_end"
        THEN Append(list, Segment(cycle.main_trend, cycle.pre_trend_end, cycle.end))
        ELSE Append(list, Segment(cycle.main_trend, cursor, cycle.end))

\* mutant of Stitch: a merge leaves the last segment's end where it was
Stitch_MergeKeepsEnd(list, cycle, cursor, prev) ==
    LET arm == StitchBranch(cycle, prev)
    IN  IF arm = "merge" THEN list
        ELSE IF arm = "flip_pre_trend_end"
        THEN Append(SetLastEnd(list, cycle.pre_trend_end),
                    Segment(cycle.main_trend, cycle.pre_trend_end, cycle.end))
        ELSE Append(list, Segment(cycle.main_trend, cursor, cycle.end))

\* mutant of Stitch: a flip opens the new segment at the cursor
Stitch_FlipFromCursor(list, cycle, cursor, prev) ==
    LET arm == StitchBranch(cycle, prev)
    IN  IF arm = "merge" THEN SetLastEnd(list, cycle.end)
        ELSE IF arm = "flip_pre_trend_end"
        THEN Append(SetLastEnd(list, cycle.pre_trend_end),
                    Segment(cycle.main_trend, cursor, cycle.end))
        ELSE Append(list, Segment(cycle.main_trend, cursor, cycle.end))

\* mutant of Stitch: a same-direction scan opens a segment of its own
Stitch_AppendOnMerge(list, cycle, cursor, prev) ==
    LET arm == StitchBranch(cycle, prev)
    IN  IF arm = "flip_pre_trend_end"
        THEN Append(SetLastEnd(list, cycle.pre_trend_end),
                    Segment(cycle.main_trend, cycle.pre_trend_end, cycle.end))
        ELSE Append(list, Segment(cycle.main_trend, cursor, cycle.end))

\* mutant of Stitch: a none scan after a trend extends the trend's segment
Stitch_AbsorbNone(list, cycle, cursor, prev) ==
    LET arm == StitchBranch(cycle, prev)
    IN  IF arm = "merge" \/ (cycle.main_trend = "none" /\ prev # "none")
        THEN SetLastEnd(list, cycle.end)
        ELSE IF arm = "flip_pre_trend_end"
        THEN Append(SetLastEnd(list, cycle.pre_trend_end),
                    Segment(cycle.main_trend, cycle.pre_trend_end, cycle.end))
        ELSE Append(list, Segment(cycle.main_trend, cursor, cycle.end))

\* lines 85-113
Stitch(list, cycle, cursor, prev) ==
    LET arm == StitchBranch(cycle, prev)
    IN  IF arm = "merge" THEN SetLastEnd(list, cycle.end)
        ELSE IF arm = "flip_pre_trend_end"
        THEN Append(SetLastEnd(list, cycle.pre_trend_end),
                    Segment(cycle.main_trend, cycle.pre_trend_end, cycle.end))
        ELSE Append(list, Segment(cycle.main_trend, cursor, cycle.end))

\* the time of the observation at which the scan's threshold was crossed
\* (boom[0] or bust[0] of lines 35, 37 and 53); 0 when the scan found none
CrossingTime(df, cycle, boom_chg, bust_chg) ==
    IF cycle.main_trend = "boom" THEN time(df, where_boom(df, boom_chg)[1])
    ELSE IF cycle.main_trend = "bust" THEN time(df, where_bust(df, bust_chg)[1])
    ELSE 0

\* history kept beside boom_bust_list, one entry per segment: the crossing of
\* the scan that opened it, the number of scans that set its end, and whether
\* a later flip moved its end away from where its own scans had put it
Provenance(prov, cycle, cursor, prev, crossing) ==
    LET arm == StitchBranch(cycle, prev)
        opened == [crossing |-> crossing, scans |-> 1, moved |-> FALSE]
    IN  IF arm = "merge"
        THEN [prov EXCEPT ![Len(prov)].scans = @ + 1]
        ELSE IF arm = "flip_pre_trend_end"
        THEN Append([prov EXCEPT ![Len(prov)].moved =
                         (@ \/ cycle.pre_trend_end # cursor)],
                    opened)
        ELSE Append(prov, opened)

---------------------------------------------------------------------------
(* boom_bust *)

\* line 127
EmptyDict == [boom |-> <<>>, bust |-> <<>>, none |-> <<>>]

\* mutant of ProjectLoop: each interval is put at the front of its list
RECURSIVE ProjectLoop_Prepend(_, _)
ProjectLoop_Prepend(list, dict) ==
    IF list = <<>> THEN dict
    ELSE ProjectLoop_Prepend(Tail(list),
                             [dict EXCEPT ![Head(list).main_trend] =
                                  <<<<Head(list).start, Head(list).end>>>> \o @])

\* lines 128-129: the for loop over boom_bust_list
RECURSIVE ProjectLoop(_, _)
ProjectLoop(list, dict) ==
    IF list = <<>> THEN dict
    ELSE ProjectLoop(Tail(list),
                     [dict EXCEPT ![Head(list).main_trend] =
                          Append(@, <<Head(list).start, Head(list).end>>)])

---------------------------------------------------------------------------
(* Inputs *)

\* observations at times 1..n given in ascending or in descending order
Ascending(prices) == [i \in 1..Len(prices) |-> Row(i, prices[i])]
Descending(prices) ==
    [i \in 1..Len(prices) |-> Row(Len(prices) + 1 - i, prices[Len(prices) + 1 - i])]

PriceSeqs == UNION {[1..n -> 1..MaxPrice] : n \in 0..MaxLen}

BoundedInputs ==
    {Ascending(ps) : ps \in PriceSeqs} \cup {Descending(ps) : ps \in PriceSeqs}

\* the sample of the module's __main__ block
SampleTimes == <<200, 300, 400, 500, 600, 700, 800, 900, 1000, 1100, 1200>>
SamplePrices == <<9, 10, 29, 2, 69, 10, 2, 69, 120, 6, 7>>
Sample == [i \in 1..Len(SampleTimes) |-> Row(SampleTimes[i], SamplePrices[i])]

\* a flat series
Flat == [i \in 1..4 |-> Row(i, 10)]

DefaultChange == <<3, 10>>

Init ==
    /\ \/ /\ observations \in BoundedInputs
          /\ boom_change \in Changes
          /\ bust_change \in Changes
       \/ /\ observations \in {Sample, Flat}
          /\ boom_change = DefaultChange
          /\ bust_change = DefaultChange
    /\ time_price = observations
    /\ boom_bust_list = <<>>
    /\ end = 0
    /\ previous_trend = "none"
    /\ cycle_dict = [main_trend |-> "unset"]
    /\ branch = "unset"
    /\ iterations = 0
    /\ provenance = <<>>
    /\ boom_bust_dict = EmptyDict
    /\ pc = "start"
    /\ error = ""
    /\ FetchIdle
    /\ PortIdle

---------------------------------------------------------------------------
(* Actions *)

\* mutant of Start: the cursor starts at 0, before every observation
Start_CursorZero ==
    /\ pc = "start"
    /\ LET sorted == sort_values(time_price)
       IN  IF Len(sorted) = 0
           THEN /\ pc' = "raised"
                /\ error' = "KeyError"
                /\ UNCHANGED <<time_price, end>>
           ELSE /\ time_price' = sorted
                /\ end' = 0
                /\ pc' = "loop"
                /\ error' = error
    /\ boom_bust_list' = <<>>
    /\ previous_trend' = "none"
    /\ UNCHANGED <<observations, boom_change, bust_change, cycle_dict, branch,
                   iterations, provenance, boom_bust_dict>>
    /\ UNCHANGED <<fetchVars, portVars>>

\* lines 77-81; time_price["time"][0] of an empty frame raises KeyError
Start ==
    /\ pc = "start"
    /\ LET sorted == sort_values(time_price)
       IN  IF Len(sorted) = 0
           THEN /\ pc' = "raised"
                /\ error' = "KeyError"
                /\ UNCHANGED <<time_price, end>>
           ELSE /\ time_price' = sorted
                /\ end' = time(sorted, 0)
                /\ pc' = "loop"
                /\ error' = error
    /\ boom_bust_list' = <<>>
    /\ previous_trend' = "none"
    /\ UNCHANGED <<observations, boom_change, bust_change, cycle_dict, branch,
                   iterations, provenance, boom_bust_dict>>
    /\ UNCHANGED <<fetchVars, portVars>>

\* lines 82-115: one iteration of the while loop
Iterate ==
    /\ pc = "loop"
    /\ end < iloc_last_time(time_price)
    /\ LET window == Window(time_price, end)
       IN  IF Len(window) = 0
           THEN /\ pc' = "raised"
                /\ error' = "ValueError"
                /\ time_price' = window
                /\ UNCHANGED <<boom_bust_list, end, previous_trend, cycle_dict,
                               branch, provenance>>
           ELSE LET cycle == boom_bust_one_period(window, boom_change, bust_change)
                IN  /\ time_price' = window
                    /\ cycle_dict' = cycle
                    /\ branch' = StitchBranch(cycle, previous_trend)
                    /\ boom_bust_list' =
                           Stitch(boom_bust_list, cycle, end, previous_trend)
                    /\ end' = cycle.end
                    /\ previous_trend' = cycle.main_trend
                    /\ provenance' =
                           Provenance(provenance, cycle, end, previous_trend,
                                      CrossingTime(window, cycle, boom_change,
                                                   bust_change))
                    /\ UNCHANGED <<pc, error>>
    /\ iterations' = iterations + 1
    /\ UNCHANGED <<observations, boom_change, bust_change, boom_bust_dict>>
    /\ UNCHANGED <<fetchVars, portVars>>

\* lines 82 and 116: the loop condition fails and the list is returned
Return ==
    /\ pc = "loop"
    /\ ~(end < iloc_last_time(time_price))
    /\ pc' = "done"
    /\ UNCHANGED <<observations, time_price, boom_change, bust_change,
                   boom_bust_list, end, previous_trend, cycle_dict, branch,
                   iterations, provenance, boom_bust_dict, error>>
    /\ UNCHANGED <<fetchVars, portVars>>

\* boom_bust, lines 126-130, once its call of boom_bust_periods has returned
Project ==
    /\ pc = "done"
    /\ boom_bust_dict' = ProjectLoop(boom_bust_list, EmptyDict)
    /\ pc' = "projected"
    /\ UNCHANGED <<observations, time_price, boom_change, bust_change,
                   boom_bust_list, end, previous_trend, cycle_dict, branch,
                   iterations, provenance, error>>
    /\ UNCHANGED <<fetchVars, portVars>>

Next == Start \/ Iterate \/ Return \/ Project

Spec == Init /\ [][Next]_vars

---------------------------------------------------------------------------
(* A direct call of boom_bust_one_period *)

\* time_price.columns
Columns(df) == DOMAIN df[1]

\* mutant of one_period_invalid: the frame is refused only when both columns
\* are missing
one_period_invalid_both(df) ==
    \/ Len(df) = 0
    \/ ("price" \notin Columns(df) /\ "time" \notin Columns(df))

\* lines 22-26: the two conditions that raise ValueError
one_period_invalid(df) ==
    \/ Len(df) = 0
    \/ ("price" \notin Columns(df) \/ "time" \notin Columns(df))

\* frames without the price column, without the time column, without both
MissingColumnFrames ==
    UNION {{[i \in 1..n |-> [time |-> i]],
            [i \in 1..n |-> [price |-> i]],
            [i \in 1..n |-> [volume |-> i]]} : n \in 1..MaxLen}

\* windows of integer prices of either sign and of zero
SignedPriceSeqs ==
    UNION {[1..n -> (-MaxMagnitude)..MaxMagnitude] : n \in 1..(MaxLen - 1)}

ScanFrames ==
    {Ascending(ps) : ps \in PriceSeqs \cup SignedPriceSeqs} \cup MissingColumnFrames

InitScan ==
    /\ observations \in ScanFrames
    /\ time_price = observations
    /\ boom_change \in Changes
    /\ bust_change \in Changes
    /\ boom_bust_list = <<>>
    /\ end = 0
    /\ previous_trend = "none"
    /\ cycle_dict = [main_trend |-> "unset"]
    /\ branch = "unset"
    /\ iterations = 0
    /\ provenance = <<>>
    /\ boom_bust_dict = EmptyDict
    /\ pc = "scan"
    /\ error = ""
    /\ FetchIdle
    /\ PortIdle

\* lines 22-26
ScanValidate ==
    /\ pc = "scan"
    /\ IF one_period_invalid(time_price)
       THEN pc' = "raised" /\ error' = "ValueError"
       ELSE pc' = "validated" /\ error' = error
    /\ UNCHANGED <<observations, time_price, boom_change, bust_change,
                   boom_bust_list, end, previous_trend, cycle_dict, branch,
                   iterations, provenance, boom_bust_dict>>
    /\ UNCHANGED <<fetchVars, portVars>>

\* lines 28-71; time_price["price"] or time_price["time"] of a frame without
\* that column raises KeyError, and so does a lookup of a row label the frame
\* does not have
ScanCompute ==
    /\ pc = "validated"
    /\ IF /\ {"price", "time"} \subseteq Columns(time_price)
          /\ ~RaisesKeyError(time_price, boom_change, bust_change)
       THEN /\ cycle_dict' =
                   boom_bust_one_period(time_price, boom_change, bust_change)
            /\ pc' = "returned"
            /\ error' = error
       ELSE /\ cycle_dict' = cycle_dict
            /\ pc' = "raised"
            /\ error' = "KeyError"
    /\ UNCHANGED <<observations, time_price, boom_change, bust_change,
                   boom_bust_list, end, previous_trend, branch, iterations,
                   provenance, boom_bust_dict>>
    /\ UNCHANGED <<fetchVars, portVars>>

NextScan == ScanValidate \/ ScanCompute

ScanSpec == InitScan /\ [][NextScan]_vars

---------------------------------------------------------------------------
(* query_swaps_trading_v2 of scripts/fetch_swap_transactions_v2.py         *)
(*                                                                         *)
(* The subgraph returns a swap's timestamp as a decimal string; a string   *)
(* is the sequence of its digits.  The timestamps below all have two       *)
(* digits, as the Unix times of the source all have ten.                   *)

MinTimestamp == 10
MaxTimestamp == 13
MaxSwaps == 4
MaxFirst == 2

\* str(n) of a non-negative int
RECURSIVE str(_)
str(n) == IF n < 10 THEN <<n>> ELSE str(n \div 10) \o <<n % 10>>

\* int(s) of a decimal string
RECURSIVE int(_)
int(s) == IF s = <<>> THEN 0 ELSE 10 * int(SubSeq(s, 1, Len(s) - 1)) + s[Len(s)]

\* a >= b on strings: the order of the first position where they differ, a
\* proper prefix being the smaller
RECURSIVE str_ge(_, _)
str_ge(a, b) ==
    IF b = <<>> THEN TRUE
    ELSE IF a = <<>> THEN FALSE
    ELSE IF Head(a) # Head(b) THEN Head(a) > Head(b)
    ELSE str_ge(Tail(a), Tail(b))

\* the first k rows of a result
Take(rows, k) == SubSeq(rows, 1, IF Len(rows) < k THEN Len(rows) ELSE k)

\* swaps(first: k, orderBy: timestamp, orderDirection: asc,
\*       where: {timestamp_gt: $timestamp_gt}), lines 23 and 81
run_query(swaps, k, timestamp_gt) ==
    Take(SelectSeq(swaps, LAMBDA swap : int(swap.timestamp) > timestamp_gt), k)

\* lines 133-135
drop_from_end(df, end_ts) ==
    SelectSeq(df, LAMBDA swap : ~str_ge(swap.timestamp, str(end_ts)))

Timestamps == MinTimestamp..MaxTimestamp

\* the swaps of a subgraph, in the order orderBy: timestamp gives them
Swaps(stamps) == [i \in 1..Len(stamps) |-> [id |-> i, timestamp |-> str(stamps[i])]]

NonDecreasing(stamps) == \A i \in 1..(Len(stamps) - 1) : stamps[i] <= stamps[i + 1]

Subgraphs ==
    {Swaps(stamps) :
        stamps \in {st \in UNION {[1..n -> Timestamps] : n \in 0..MaxSwaps} :
                        NonDecreasing(st)}}

InitFetch ==
    /\ subgraph \in Subgraphs
    /\ start_timestamp \in Timestamps
    /\ end_timestamp \in MinTimestamp..(MaxTimestamp + 1)
    /\ first \in 1..MaxFirst
    /\ df_all_swaps = <<>>
    /\ swaps_iter = <<>>
    /\ iter_count = 0
    /\ total_swaps_amount = 0
    /\ pc = "batch0"
    /\ error = ""
    /\ CycleIdle
    /\ PortIdle

\* lines 19-69: batch 0
FetchBatch0 ==
    /\ pc = "batch0"
    /\ LET get_swaps_batch0 == run_query(subgraph, first, start_timestamp - 1)
       IN  /\ df_all_swaps' = get_swaps_batch0
           /\ swaps_iter' = get_swaps_batch0
           /\ total_swaps_amount' = Len(get_swaps_batch0)
    /\ iter_count' = 0
    /\ pc' = "batches"
    /\ UNCHANGED <<subgraph, start_timestamp, end_timestamp, first, error>>
    /\ UNCHANGED <<cycleVars, portVars>>

\* line 73 on an empty batch: swaps_iter[-1] raises IndexError
FetchIndexError ==
    /\ pc = "batches"
    /\ swaps_iter = <<>>
    /\ pc' = "raised"
    /\ error' = "IndexError"
    /\ UNCHANGED <<fetchVars, cycleVars, portVars>>

\* lines 73-131: one further batch
FetchBatch ==
    /\ pc = "batches"
    /\ swaps_iter # <<>>
    /\ int(swaps_iter[Len(swaps_iter)].timestamp) < end_timestamp
    /\ LET last_gt == int(swaps_iter[Len(swaps_iter)].timestamp)
           result_iter == run_query(subgraph, first, last_gt)
       IN  /\ swaps_iter' = result_iter
           /\ df_all_swaps' = df_all_swaps \o result_iter
           /\ total_swaps_amount' = total_swaps_amount + Len(result_iter)
    /\ iter_count' = iter_count + 1
    /\ UNCHANGED <<subgraph, start_timestamp, end_timestamp, first, pc, error>>
    /\ UNCHANGED <<cycleVars, portVars>>

\* lines 73 and 133-135: the loop ends and the swaps from end_timestamp on are
\* dropped
FetchDrop ==
    /\ pc = "batches"
    /\ swaps_iter # <<>>
    /\ ~(int(swaps_iter[Len(swaps_iter)].timestamp) < end_timestamp)
    /\ df_all_swaps' = drop_from_end(df_all_swaps, end_timestamp)
    /\ pc' = "dropped"
    /\ UNCHANGED <<subgraph, start_timestamp, end_timestamp, first, swaps_iter,
                   iter_count, total_swaps_amount, error>>
    /\ UNCHANGED <<cycleVars, portVars>>

\* lines 137-157: line 143 looks up the column "pair]", which no frame has
FetchColumns ==
    /\ pc = "dropped"
    /\ pc' = "raised"
    /\ error' = "KeyError"
    /\ UNCHANGED <<fetchVars, cycleVars, portVars>>

NextFetch == FetchBatch0 \/ FetchIndexError \/ FetchBatch \/ FetchDrop \/ FetchColumns

FetchSpec == InitFetch /\ [][NextFetch]_vars

---------------------------------------------------------------------------
(* _sorting, _mcap_weight and asset_pricing of                             *)
(* environ/process/asset_pricing/double_sorting.py                         *)
(*                                                                         *)
(* A row of the panel keeps its index label and the columns the functions  *)
(* read: lag (the lagged risk factor), mcap, ret and mret.  A float that   *)
(* is a quotient of sums is kept as the pair <<numerator, denominator>>.   *)

MaxRows == 3
MaxFactor == 2
MaxPort == 3
MaxPeriods == 2

\* f"P{k}"
PortfolioNames == <<"P1", "P2", "P3", "P4", "P5">>
PortfolioName(k) == PortfolioNames[k]

\* df["portfolio"] = label
SetPortfolio(df, label) ==
    [i \in 1..Len(df) |->
        [index |-> df[i].index, lag |-> df[i].lag, mcap |-> df[i].mcap,
         ret |-> df[i].ret, mret |-> df[i].mret, portfolio |-> label]]

\* _sort_zero_value_port: the rows left in the period and the zero portfolio
sort_zero_value_port(df) ==
    [period |-> SelectSeq(df, LAMBDA row : row.lag # 0),
     zero_dom |-> SetPortfolio(SelectSeq(df, LAMBDA row : row.lag = 0), "P1")]

RECURSIVE InsertByLag(_, _)
InsertByLag(row, sorted) ==
    IF sorted = <<>> THEN <<row>>
    ELSE IF row.lag <= Head(sorted).lag THEN <<row>> \o sorted
    ELSE <<Head(sorted)>> \o InsertByLag(row, Tail(sorted))

\* df.sort_values(by=lag, ascending=True); rows of equal lag keep their order,
\* as they do for the short frames numpy sorts by insertion
RECURSIVE sort_by_lag(_)
sort_by_lag(df) ==
    IF df = <<>> THEN <<>>
    ELSE InsertByLag(Head(df), sort_by_lag(Tail(df)))

\* df.iloc[a:b] for 0 <= a
iloc(df, a, b) == SubSeq(df, a + 1, IF b < Len(df) THEN b ELSE Len(df))

\* the for loop of lines 209-221, from port up to stop - 1
RECURSIVE SortingLoop(_, _, _, _, _)
SortingLoop(df, n_threasold, port, stop, zero) ==
    IF port >= stop THEN <<>>
    ELSE SetPortfolio(iloc(df, port * n_threasold, (port + 1) * n_threasold),
                      PortfolioName(IF zero THEN port + 2 ELSE port + 1))
             \o SortingLoop(df, n_threasold, port + 1, stop, zero)

\* lines 192-232
sorting(df, n, zero) ==
    LET split == sort_zero_value_port(df)
        head == IF zero THEN split.zero_dom ELSE <<>>
        sorted == sort_by_lag(IF zero THEN split.period ELSE df)
        n_threasold == Len(sorted) \div n
    IN  head
            \o SortingLoop(sorted, n_threasold, 0,
                           IF zero THEN n - 2 ELSE n - 1, zero)
            \o SetPortfolio(iloc(sorted, (n - 1) * n_threasold, Len(sorted)),
                            PortfolioName(n))

\* Series.sum()
RECURSIVE sum(_)
sum(series) == IF series = <<>> THEN 0 ELSE Head(series) + sum(Tail(series))

\* (df["mcap"] / df["mcap"].sum() * df["ret"]).sum()
weighted_ret(df) ==
    <<sum([i \in 1..Len(df) |-> df[i].mcap * df[i].ret]),
      sum([i \in 1..Len(df) |-> df[i].mcap])>>

\* df["mret"].mean()
mean_mret(df) == <<sum([i \in 1..Len(df) |-> df[i].mret]), Len(df)>>

\* lines 241-248
mcap_weight(df, dict) ==
    LET n == Cardinality({df[i].portfolio : i \in 1..Len(df)})
        names == {PortfolioName(port) : port \in 1..n}
    IN  [k \in DOMAIN dict |->
            IF k \in names THEN Append(dict[k], weighted_ret(df)) ELSE dict[k]]

\* the rows of one period: row i has index label i and market cap i
PeriodFrame(lags, rets, m) ==
    [i \in 1..Len(lags) |->
        [index |-> i, lag |-> lags[i], mcap |-> i, ret |-> rets[i], mret |-> m]]

PeriodFrames ==
    UNION {{PeriodFrame(lags, rets, m) :
               lags \in [1..n -> 0..MaxFactor], rets \in [1..n -> {0, 1}],
               m \in {0, 1}} : n \in 1..MaxRows}

\* a direct call of _sorting
InitSort ==
    /\ df_panel_period \in PeriodFrames
    /\ n_port \in 1..MaxPort
    /\ zero_value_portfolio \in BOOLEAN
    /\ df_portfolio = <<>>
    /\ ret_dict = <<>>
    /\ date_list = <<>>
    /\ processed = 0
    /\ pc = "sorting"
    /\ error = ""
    /\ CycleIdle
    /\ FetchIdle

Sort ==
    /\ pc = "sorting"
    /\ df_portfolio' = sorting(df_panel_period, n_port, zero_value_portfolio)
    /\ pc' = "sorted"
    /\ UNCHANGED <<df_panel_period, n_port, zero_value_portfolio, ret_dict,
                   date_list, processed, error>>
    /\ UNCHANGED <<cycleVars, fetchVars>>

NextSort == Sort

SortSpec == InitSort /\ [][NextSort]_vars

\* asset_pricing, lines 329-335: the dates after the first, and ret_dict
InitPricing ==
    /\ n_port \in 1..MaxPort
    /\ zero_value_portfolio \in BOOLEAN
    /\ date_list \in {[i \in 1..k |-> i + 1] : k \in 1..MaxPeriods}
    /\ ret_dict = [k \in {PortfolioName(port) : port \in 1..n_port}
                             \cup {"freq", "mret"} |-> <<>>]
    /\ df_panel_period = <<>>
    /\ df_portfolio = <<>>
    /\ processed = 0
    /\ pc = "periods"
    /\ error = ""
    /\ CycleIdle
    /\ FetchIdle

\* lines 338-351: one period of the for loop
ProcessPeriod ==
    /\ pc = "periods"
    /\ processed < Len(date_list)
    /\ \E frame \in PeriodFrames :
           LET period == date_list[processed + 1]
               portfolio == sorting(frame, n_port, zero_value_portfolio)
               appended == [ret_dict EXCEPT !["freq"] = Append(@, period),
                                            !["mret"] = Append(@, mean_mret(frame))]
           IN  /\ df_panel_period' = frame
               /\ df_portfolio' = portfolio
               /\ ret_dict' = mcap_weight(portfolio, appended)
    /\ processed' = processed + 1
    /\ UNCHANGED <<n_port, zero_value_portfolio, date_list, pc, error>>
    /\ UNCHANGED <<cycleVars, fetchVars>>

\* line 354: pd.DataFrame(ret_dict) raises ValueError when the lists differ in
\* length
Evaluate ==
    /\ pc = "periods"
    /\ processed = Len(date_list)
    /\ IF \A k \in DOMAIN ret_dict : Len(ret_dict[k]) = Len(ret_dict["freq"])
       THEN pc' = "evaluated" /\ error' = error
       ELSE pc' = "raised" /\ error' = "ValueError"
    /\ UNCHANGED <<portVars, cycleVars, fetchVars>>

NextPricing == ProcessPeriod \/ Evaluate

PricingSpec == InitPricing /\ [][NextPricing]_vars

---------------------------------------------------------------------------
(* Vocabulary of the properties *)

Times(df) == {df[i].time : i \in 1..Len(df)}
MinTime(df) == CHOOSE t \in Times(df) : \A u \in Times(df) : t <= u
MaxTime(df) == CHOOSE t \in Times(df) : \A u \in Times(df) : u <= t

Contiguous(list) == \A i \in 1..(Len(list) - 1) : list[i].end = list[i + 1].start

Last(list) == list[Len(list)]

\* a step of the loop body that ran a scan to completion
Iterated == iterations' = iterations + 1 /\ pc' = "loop"

\* a scan has run and time_price is the window it was given
Scanned == iterations > 0 /\ pc \in {"loop", "done"}

\* the position in the window of the row whose time is t
IndexOfTime(df, t) == CHOOSE i \in 0..(Len(df) - 1) : time(df, i) = t

---------------------------------------------------------------------------
(* C1: for every non-empty observation sequence with pairwise distinct     *)
(* times and positive prices the returned segments cover the horizon: the  *)
(* first starts at the smallest time, the last ends at the largest time    *)
(* and consecutive segments leave no gap.                                  *)

Covers(list, df) ==
    /\ Len(list) >= 1
    /\ list[1].start = MinTime(df)
    /\ Last(list).end = MaxTime(df)
    /\ Contiguous(list)

\* C1 as stated: violated by a single observation, whose result is empty
C1_CoverageNonEmpty ==
    (pc = "done" /\ Len(observations) >= 1) => Covers(boom_bust_list, observations)

\* C1 amended: the same for every sequence of at least two observations
C1_CoverageTwoOrMore ==
    (pc = "done" /\ Len(observations) >= 2) => Covers(boom_bust_list, observations)

C1_Witness ==
    /\ pc = "done"
    /\ Len(boom_bust_list) >= 3
    /\ observations # sort_values(observations)

---------------------------------------------------------------------------
(* C2: boom_bust_periods terminates: every loop iteration sets the cursor  *)
(* end to a time of the series strictly greater than its previous value,   *)
(* the loop runs at most n - 1 times for n observations, and it exits with *)
(* end exactly equal to the last timestamp.                                *)

C2_Progress ==
    [][/\ Iterated =>
            /\ end' > end
            /\ end' \in Times(observations)
            /\ end' <= MaxTime(observations)
            /\ iterations' <= Len(observations) - 1
       /\ pc' = "done" =>
            /\ end' = MaxTime(observations)
            /\ iterations' <= Len(observations) - 1]_vars

C2_Witness ==
    /\ pc = "done"
    /\ iterations = Len(observations) - 1
    /\ iterations >= 3

---------------------------------------------------------------------------
(* C3: after every iteration each segment's end is the next segment's      *)
(* start, the last segment's end is the cursor end and the last segment's  *)
(* label is previous_trend.                                                *)

C3_StitchInvariant ==
    Scanned =>
        /\ Len(boom_bust_list) >= 1
        /\ Contiguous(boom_bust_list)
        /\ Last(boom_bust_list).end = end
        /\ Last(boom_bust_list).main_trend = previous_trend

C3_Witness ==
    /\ Scanned
    /\ iterations >= 2
    /\ branch = "flip_pre_trend_end"
    /\ cycle_dict.pre_trend_end > cycle_dict.start

---------------------------------------------------------------------------
(* C4: when the scan's trend is boom or bust and previous_trend is the     *)
(* opposite one, the last emitted segment's end is set to the scan's       *)
(* pre_trend_end and a segment with the new trend from pre_trend_end to    *)
(* the scan's end is appended; so after a boom a bust scan leaves the boom *)
(* segment ending at the pre-bust peak and a bust segment starting there.  *)

Opposite(a, b) == (a = "boom" /\ b = "bust") \/ (a = "bust" /\ b = "boom")

\* the row of the window at time t holds the first maximum of the prices up to
\* the row at time e
IsPeak(df, t, e) ==
    LET k == IndexOfTime(df, t)
    IN  /\ k <= IndexOfTime(df, e)
        /\ \A j \in 0..IndexOfTime(df, e) : price(df, j) <= price(df, k)

C4_Flip ==
    [][(Iterated /\ Opposite(previous_trend, cycle_dict'.main_trend)) =>
          LET n == Len(boom_bust_list)
              cycle == cycle_dict'
          IN  /\ Len(boom_bust_list') = n + 1
              /\ boom_bust_list'[n].end = cycle.pre_trend_end
              /\ boom_bust_list'[n].main_trend = previous_trend
              /\ boom_bust_list'[n + 1].main_trend = cycle.main_trend
              /\ boom_bust_list'[n + 1].start = cycle.pre_trend_end
              /\ boom_bust_list'[n + 1].end = cycle.end
              /\ cycle.main_trend = "bust" =>
                     IsPeak(time_price', boom_bust_list'[n + 1].start, cycle.end)
      ]_vars

\* a boom followed by a bust whose peak lies after the cursor
C4_Witness ==
    /\ Scanned
    /\ branch = "flip_pre_trend_end"
    /\ cycle_dict.main_trend = "bust"
    /\ cycle_dict.pre_trend_end > cycle_dict.start
    /\ Len(boom_bust_list) >= 2
    /\ boom_bust_list[Len(boom_bust_list) - 1].main_trend = "boom"
    /\ boom_bust_list[Len(boom_bust_list) - 1].end = cycle_dict.pre_trend_end

---------------------------------------------------------------------------
(* C5: the scan classifies its window by the first threshold crossing:     *)
(* with boom_idx the first index whose price is strictly above             *)
(* price[0] * (1 + boom_change) and bust_idx the first index whose price   *)
(* is strictly below price[0] * (1 - bust_change), the result is bust when *)
(* bust_idx exists and (boom_idx does not or bust_idx < boom_idx), boom    *)
(* when boom_idx exists otherwise, none when neither exists.               *)

StrictlyAbove(df, i, chg) == price(df, i) * chg[2] > price(df, 0) * (chg[2] + chg[1])
StrictlyBelow(df, i, chg) == price(df, i) * chg[2] < price(df, 0) * (chg[2] - chg[1])

Positions(df) == 0..(Len(df) - 1)

IsBoomIdx(df, i) ==
    /\ StrictlyAbove(df, i, boom_change)
    /\ \A j \in 0..(i - 1) : ~StrictlyAbove(df, j, boom_change)

IsBustIdx(df, i) ==
    /\ StrictlyBelow(df, i, bust_change)
    /\ \A j \in 0..(i - 1) : ~StrictlyBelow(df, j, bust_change)

FirstCrossingTrend(df) ==
    IF \E b \in Positions(df) :
           /\ IsBustIdx(df, b)
           /\ \A k \in Positions(df) : IsBoomIdx(df, k) => b < k
    THEN "bust"
    ELSE IF \E k \in Positions(df) : IsBoomIdx(df, k) THEN "boom"
    ELSE "none"

C5_FirstCrossingWins ==
    Scanned => cycle_dict.main_trend = FirstCrossingTrend(time_price)

\* both thresholds are crossed in the window and the bust crossing comes first
C5_Witness ==
    /\ Scanned
    /\ cycle_dict.main_trend = "bust"
    /\ \E b, k \in Positions(time_price) :
           IsBustIdx(time_price, b) /\ IsBoomIdx(time_price, k) /\ b < k

---------------------------------------------------------------------------
(* C6: for a boom (bust) classification with crossing index c the scan's   *)
(* end is the time at the largest index e >= c such that prices strictly   *)
(* increase (decrease) at every step from c - 1 to e: the walk stops at    *)
(* the first step not strictly in that direction, an equal price included, *)
(* or at the end of the window.                                            *)

StepsTheRightWay(df, trend, k) ==
    IF trend = "boom" THEN price(df, k) > price(df, k - 1)
    ELSE price(df, k) < price(df, k - 1)

IsCrossing(df, trend, c) ==
    IF trend = "boom" THEN IsBoomIdx(df, c) ELSE IsBustIdx(df, c)

C6_MonotoneExtension ==
    (Scanned /\ cycle_dict.main_trend \in {"boom", "bust"}) =>
        LET df == time_price
            trend == cycle_dict.main_trend
            e == IndexOfTime(df, cycle_dict.end)
        IN  \A c \in Positions(df) :
                IsCrossing(df, trend, c) =>
                    /\ e >= c
                    /\ \A k \in c..e : StepsTheRightWay(df, trend, k)
                    /\ e = Len(df) - 1 \/ ~StepsTheRightWay(df, trend, e + 1)

\* a boom whose walk went past the crossing and was stopped by an equal price
C6_Witness ==
    /\ Scanned
    /\ cycle_dict.main_trend = "boom"
    /\ \E c \in Positions(time_price) :
           /\ IsBoomIdx(time_price, c)
           /\ IndexOfTime(time_price, cycle_dict.end) > c
    /\ IndexOfTime(time_price, cycle_dict.end) < Len(time_price) - 1
    /\ price(time_price, IndexOfTime(time_price, cycle_dict.end) + 1)
           = price(time_price, IndexOfTime(time_price, cycle_dict.end))

---------------------------------------------------------------------------
(* C7: for a boom result pre_trend_end is the time of the minimum price    *)
(* among window indices 0..end index, for a bust result the time of the    *)
(* maximum price over the same range, the earliest such index when the     *)
(* extreme is attained more than once; a none result has no pre_trend_end. *)

IsFirstExtreme(df, trend, k, e) ==
    /\ k \in 0..e
    /\ \A j \in 0..e :
           IF trend = "boom" THEN price(df, k) <= price(df, j)
           ELSE price(df, k) >= price(df, j)
    /\ \A j \in 0..(k - 1) : price(df, j) # price(df, k)

C7_PreTrendEnd ==
    Scanned =>
        IF cycle_dict.main_trend \in {"boom", "bust"}
        THEN /\ "pre_trend_end" \in DOMAIN cycle_dict
             /\ cycle_dict.pre_trend_end \in Times(time_price)
             /\ IsFirstExtreme(time_price, cycle_dict.main_trend,
                               IndexOfTime(time_price, cycle_dict.pre_trend_end),
                               IndexOfTime(time_price, cycle_dict.end))
        ELSE "pre_trend_end" \notin DOMAIN cycle_dict

\* a boom whose trough is attained twice, the first time after the window's start
C7_Witness ==
    /\ Scanned
    /\ cycle_dict.main_trend = "boom"
    /\ cycle_dict.pre_trend_end > cycle_dict.start
    /\ \E j \in Positions(time_price) :
           /\ time(time_price, j) > cycle_dict.pre_trend_end
           /\ time(time_price, j) < cycle_dict.end
           /\ price(time_price, j)
                  = price(time_price, IndexOfTime(time_price, cycle_dict.pre_trend_end))

---------------------------------------------------------------------------
(* C8: when the scan's trend is boom or bust and equals previous_trend no  *)
(* segment is appended: the number of segments is unchanged, the last      *)
(* segment's end becomes the scan's end, and its start, its label and all  *)
(* earlier segments are unchanged.                                         *)

C8_Merge ==
    [][(/\ Iterated
        /\ cycle_dict'.main_trend \in {"boom", "bust"}
        /\ cycle_dict'.main_trend = previous_trend) =>
          LET n == Len(boom_bust_list)
          IN  /\ Len(boom_bust_list') = n
              /\ boom_bust_list'[n].end = cycle_dict'.end
              /\ boom_bust_list'[n].start = boom_bust_list[n].start
              /\ boom_bust_list'[n].main_trend = boom_bust_list[n].main_trend
              /\ \A i \in 1..(n - 1) : boom_bust_list'[i] = boom_bust_list[i]
      ]_vars

C8_Witness ==
    /\ Scanned
    /\ branch = "merge"
    /\ Len(boom_bust_list) < iterations
    /\ Last(boom_bust_list).end = cycle_dict.end
    /\ Last(boom_bust_list).start < cycle_dict.start

---------------------------------------------------------------------------
(* C9: whenever the scan's trend is none or previous_trend is none a new   *)
(* segment from the cursor end to the scan's end with the scan's label is  *)
(* appended and no existing segment is modified; a none result is never    *)
(* absorbed into a neighbouring segment.                                   *)

C9_AppendOnNone ==
    [][(/\ Iterated
        /\ cycle_dict'.main_trend = "none" \/ previous_trend = "none") =>
          LET n == Len(boom_bust_list)
          IN  /\ Len(boom_bust_list') = n + 1
              /\ boom_bust_list'[n + 1].main_trend = cycle_dict'.main_trend
              /\ boom_bust_list'[n + 1].start = end
              /\ boom_bust_list'[n + 1].end = cycle_dict'.end
              /\ \A i \in 1..n : boom_bust_list'[i] = boom_bust_list[i]
      ]_vars

\* a none scan right after a boom or bust segment
C9_Witness ==
    /\ Scanned
    /\ cycle_dict.main_trend = "none"
    /\ Len(boom_bust_list) >= 2
    /\ boom_bust_list[Len(boom_bust_list) - 1].main_trend \in {"boom", "bust"}
    /\ Last(boom_bust_list) = Segment("none", cycle_dict.start, cycle_dict.end)

---------------------------------------------------------------------------
(* C10: when no price of the window is strictly above the boom threshold   *)
(* or strictly below the bust threshold, a flat series and prices equal to *)
(* a threshold included, the scan returns none from the time of the        *)
(* window's first observation to the time of its last; so prices           *)
(* [10,10,10,10] at times [1,2,3,4] give the single segment none, 1 to 4.  *)

NoCrossing(df) ==
    \A i \in Positions(df) :
        /\ ~StrictlyAbove(df, i, boom_change)
        /\ ~StrictlyBelow(df, i, bust_change)

C10_NoCrossingIsNone ==
    /\ (Scanned /\ NoCrossing(time_price)) =>
           /\ cycle_dict.main_trend = "none"
           /\ cycle_dict.start = time_price[1].time
           /\ cycle_dict.end = time_price[Len(time_price)].time
    /\ (pc = "done" /\ observations = Flat) =>
           boom_bust_list = <<Segment("none", 1, 4)>>

\* a window holding a price equal to the boom threshold and one equal to the
\* bust threshold, scanned as none
C10_Witness ==
    /\ Scanned
    /\ NoCrossing(time_price)
    /\ cycle_dict.main_trend = "none"
    /\ \E i, j \in Positions(time_price) :
           /\ price(time_price, i) * boom_change[2]
                  = price(time_price, 0) * (boom_change[2] + boom_change[1])
           /\ price(time_price, j) * bust_change[2]
                  = price(time_price, 0) * (bust_change[2] - bust_change[1])

---------------------------------------------------------------------------
(* C11: boom_bust_periods, and boom_bust which calls it, invoked on an     *)
(* empty observation sequence fails with the scanner's invalid-input error *)
(* for empty input (the ValueError of line 23), which aborts the whole     *)
(* segmentation with no partial result.                                    *)

C11_EmptyRaisesScannerError ==
    (Len(observations) = 0 /\ pc # "start") =>
        /\ pc = "raised"
        /\ error = "ValueError"
        /\ boom_bust_list = <<>>

---------------------------------------------------------------------------
(* C12: boom_bust_one_period called with an empty observation sequence, or *)
(* with one lacking the price or the time field, fails with the            *)
(* invalid-input error (ValueError) before any threshold is computed and   *)
(* returns no cycle.                                                       *)

LacksField(df) ==
    Len(df) > 0 /\ ("price" \notin DOMAIN df[1] \/ "time" \notin DOMAIN df[1])

C12_InvalidInputRaises ==
    /\ (Len(time_price) = 0 \/ LacksField(time_price)) =>
           /\ pc \in {"scan", "raised"}
           /\ pc = "raised" => error = "ValueError"
           /\ cycle_dict = [main_trend |-> "unset"]
    /\ (pc = "raised" /\ error = "ValueError") =>
           (Len(time_price) = 0 \/ LacksField(time_price))

\* a frame that has the time column and lacks the price column was refused
C12_Witness ==
    /\ pc = "raised"
    /\ error = "ValueError"
    /\ Len(time_price) > 0
    /\ "time" \in DOMAIN time_price[1]
    /\ "price" \notin DOMAIN time_price[1]

---------------------------------------------------------------------------
(* C13: in every returned segment labelled boom the prices of consecutive  *)
(* observations from the observation where the boom threshold was crossed  *)
(* up to the segment's final end never decrease from one step to the next; *)
(* in every bust segment they never increase.                              *)

Series == sort_values(observations)

\* no step between consecutive observations with times in [from, to] goes
\* against the trend
NeverAgainst(trend, from, to) ==
    \A i \in 1..(Len(Series) - 1) :
        (Series[i].time >= from /\ Series[i + 1].time <= to) =>
            IF trend = "boom" THEN Series[i + 1].price >= Series[i].price
            ELSE Series[i + 1].price <= Series[i].price

\* C13 as stated: violated when a second same-direction scan is merged into the
\* segment, or a flip moves the segment's end to a later peak or trough
C13_MonotoneSegments ==
    pc = "done" =>
        \A i \in 1..Len(boom_bust_list) :
            boom_bust_list[i].main_trend \in {"boom", "bust"} =>
                NeverAgainst(boom_bust_list[i].main_trend,
                             provenance[i].crossing, boom_bust_list[i].end)

\* C13 amended: the same for every returned boom or bust segment whose end was
\* set by a single scan and not moved by a later direction flip
C13_MonotoneSingleScanSegments ==
    pc = "done" =>
        \A i \in 1..Len(boom_bust_list) :
            (/\ boom_bust_list[i].main_trend \in {"boom", "bust"}
             /\ provenance[i].scans = 1
             /\ ~provenance[i].moved) =>
                /\ provenance[i].crossing <= boom_bust_list[i].end
                /\ NeverAgainst(boom_bust_list[i].main_trend,
                                provenance[i].crossing, boom_bust_list[i].end)

\* a single-scan boom segment that runs past its crossing and is followed by
\* another segment
C13_Witness ==
    /\ pc = "done"
    /\ \E i \in 1..(Len(boom_bust_list) - 1) :
           /\ boom_bust_list[i].main_trend = "boom"
           /\ provenance[i].scans = 1
           /\ ~provenance[i].moved
           /\ provenance[i].crossing < boom_bust_list[i].end

---------------------------------------------------------------------------
(* C14: at every iteration the scan window is exactly the observations     *)
(* with time >= the cursor end: it is non-empty, its first observation is  *)
(* the one whose time equals end, and both thresholds of the scan are      *)
(* computed from that observation's price, not from the first price of the *)
(* whole series.                                                           *)

\* the price observed at time t
PriceAt(t) ==
    observations[CHOOSE i \in 1..Len(observations) : observations[i].time = t].price

\* the trend of the first crossing in df with both thresholds taken from p0
TrendFrom(df, p0) ==
    LET above(i) == price(df, i) * boom_change[2]
                        > p0 * (boom_change[2] + boom_change[1])
        below(i) == price(df, i) * bust_change[2]
                        < p0 * (bust_change[2] - bust_change[1])
        firstAbove(i) == above(i) /\ \A j \in 0..(i - 1) : ~above(j)
        firstBelow(i) == below(i) /\ \A j \in 0..(i - 1) : ~below(j)
    IN  IF \E b \in Positions(df) :
               firstBelow(b) /\ \A k \in Positions(df) : firstAbove(k) => b < k
        THEN "bust"
        ELSE IF \E k \in Positions(df) : above(k) THEN "boom"
        ELSE "none"

C14_WindowFromCursor ==
    [][Iterated =>
          /\ Len(time_price') >= 1
          /\ {time_price'[i] : i \in 1..Len(time_price')}
                 = {observations[i] : i \in {j \in 1..Len(observations) :
                                                 observations[j].time >= end}}
          /\ \A i \in 1..(Len(time_price') - 1) :
                 time_price'[i].time < time_price'[i + 1].time
          /\ time_price'[1].time = end
          /\ cycle_dict'.start = end
          /\ cycle_dict'.main_trend = TrendFrom(time_price', PriceAt(end))
      ]_vars

\* a later iteration whose trend differs from the one the first price of the
\* whole series would give
C14_Witness ==
    /\ Scanned
    /\ iterations >= 2
    /\ Len(time_price) < Len(observations)
    /\ cycle_dict.main_trend # TrendFrom(time_price, PriceAt(MinTime(observations)))

---------------------------------------------------------------------------
(* C15: boom_bust_periods works forward only: in any iteration only the    *)
(* most recently emitted segment can be modified, the segments before it   *)
(* are never changed again, and each scan reads only observations with     *)
(* time >= the current cursor, so its result does not depend on any        *)
(* observation before the cursor.                                          *)

\* the series with the price of every observation before time t set to q
WithEarlierPrices(series, t, q) ==
    [i \in 1..Len(series) |->
        IF series[i].time < t THEN Row(series[i].time, q) ELSE series[i]]

C15_ForwardOnly ==
    [][Iterated =>
          /\ Len(boom_bust_list') >= Len(boom_bust_list)
          /\ \A i \in 1..(Len(boom_bust_list) - 1) :
                 boom_bust_list'[i] = boom_bust_list[i]
          /\ \A i \in 1..Len(time_price') : time_price'[i].time >= end
          /\ LET series == Series
             IN  \A q \in {1, MaxPrice + 1} :
                     boom_bust_one_period(
                         Window(WithEarlierPrices(series, end, q), end),
                         boom_change, bust_change) = cycle_dict'
      ]_vars

\* a third segment was opened by a flip while two earlier segments existed and
\* observations before the cursor had been dropped
C15_Witness ==
    /\ Scanned
    /\ Len(boom_bust_list) >= 3
    /\ branch = "flip_pre_trend_end"
    /\ Len(time_price) + 2 <= Len(observations)

---------------------------------------------------------------------------
(* C16: the segments are maximal: no two adjacent segments of the list     *)
(* carry the same label, because consecutive same-direction scans are      *)
(* merged into one segment.                                                *)

C16_AdjacentLabelsDiffer ==
    \A i \in 1..(Len(boom_bust_list) - 1) :
        boom_bust_list[i].main_trend # boom_bust_list[i + 1].main_trend

\* a returned list of at least two segments one of which took two scans
C16_Witness ==
    /\ pc = "done"
    /\ Len(boom_bust_list) >= 2
    /\ \E i \in 1..Len(provenance) : provenance[i].scans >= 2

---------------------------------------------------------------------------
(* C17: boom_bust returns a mapping with exactly the keys boom, bust and   *)
(* none in which every segment of boom_bust_periods appears exactly once   *)
(* as (start, end) under its own label, in the same relative order as in   *)
(* the segment list; flattening the mapping gives back the same set of     *)
(* intervals as the segment list.                                          *)

Labels == {"boom", "bust", "none"}

\* the positions of the segments labelled l, in list order
PositionsOf(list, l) ==
    SelectSeq([i \in 1..Len(list) |-> i], LAMBDA i : list[i].main_trend = l)

Intervals(seq) == {seq[i] : i \in 1..Len(seq)}

C17_Projection ==
    pc = "projected" =>
        /\ DOMAIN boom_bust_dict = Labels
        /\ \A l \in Labels :
               LET at == PositionsOf(boom_bust_list, l)
               IN  /\ Len(boom_bust_dict[l]) = Len(at)
                   /\ \A k \in 1..Len(at) :
                          boom_bust_dict[l][k] = <<boom_bust_list[at[k]].start,
                                                   boom_bust_list[at[k]].end>>
        /\ UNION {Intervals(boom_bust_dict[l]) : l \in Labels}
               = {<<boom_bust_list[i].start, boom_bust_list[i].end>> :
                      i \in 1..Len(boom_bust_list)}
        /\ Len(boom_bust_dict.boom) + Len(boom_bust_dict.bust)
               + Len(boom_bust_dict.none) = Len(boom_bust_list)

\* a mapping with two boom intervals, a bust interval and a none interval
C17_Witness ==
    /\ pc = "projected"
    /\ Len(boom_bust_dict.boom) >= 2
    /\ Len(boom_bust_dict.bust) >= 1
    /\ Len(boom_bust_dict.none) >= 1

---------------------------------------------------------------------------
(* C18: for a series with distinct times whose positive prices rise        *)
(* strictly at every step and exceed price[0] * (1 + boom_change) at some  *)
(* observation, boom_bust_periods returns a single boom segment running    *)
(* from the first time of the series to the last rising point, which is    *)
(* the last time of the series.                                            *)

StrictlyRising(df) == \A i \in 1..(Len(df) - 1) : df[i].price < df[i + 1].price

ExceedsBoomThreshold(df) ==
    \E i \in 1..Len(df) :
        df[i].price * boom_change[2] > df[1].price * (boom_change[2] + boom_change[1])

C18_RisingIsOneBoom ==
    (/\ pc = "done"
     /\ StrictlyRising(Series)
     /\ ExceedsBoomThreshold(Series)) =>
        boom_bust_list =
            <<[main_trend |-> "boom",
               start |-> MinTime(observations),
               end |-> MaxTime(observations)]>>

\* a rising series of three observations or more whose second observation
\* has not crossed the threshold
C18_Witness ==
    /\ pc = "done"
    /\ Len(Series) >= 3
    /\ StrictlyRising(Series)
    /\ ExceedsBoomThreshold(Series)
    /\ Series[2].price * boom_change[2]
           <= Series[1].price * (boom_change[2] + boom_change[1])
    /\ Len(boom_bust_list) = 1

---------------------------------------------------------------------------
(* C19: every segment held by boom_bust_periods, in every intermediate     *)
(* state and in the returned list, carries exactly one label, and that     *)
(* label is boom, bust or none.                                            *)

C19_LabelsExhaustive ==
    \A i \in 1..Len(boom_bust_list) :
        /\ DOMAIN boom_bust_list[i] = {"main_trend", "start", "end"}
        /\ boom_bust_list[i].main_trend \in Labels

\* a returned list in which each of the three labels occurs
C19_Witness ==
    /\ pc = "done"
    /\ \A l \in Labels :
           \E i \in 1..Len(boom_bust_list) : boom_bust_list[i].main_trend = l

---------------------------------------------------------------------------
(* C21: a scan classified none ends at the last timestamp, so the loop of  *)
(* boom_bust_periods stops right after it: the list holds at most one none *)
(* segment, that segment is the last one, and previous_trend is none only  *)
(* during the first iteration.                                             *)

NoneOnlyLast(list) ==
    \A i \in 1..Len(list) : list[i].main_trend = "none" => i = Len(list)

C21_NoneEndsLoop ==
    [][Iterated =>
           /\ cycle_dict'.main_trend = "none" =>
                  /\ cycle_dict'.end = iloc_last_time(time_price')
                  /\ ~(end' < iloc_last_time(time_price'))
           /\ previous_trend = "none" => iterations = 0
           /\ NoneOnlyLast(boom_bust_list')]_vars

\* a returned list that a none scan closed after two trend segments
C21_Witness ==
    /\ pc = "done"
    /\ iterations >= 3
    /\ Len(boom_bust_list) >= 3
    /\ Last(boom_bust_list).main_trend = "none"
    /\ cycle_dict.main_trend = "none"

---------------------------------------------------------------------------
(* C22: every boom or bust result of boom_bust_one_period carries          *)
(* pre_trend_end, so the direction-flip arm of boom_bust_periods that      *)
(* opens the new segment at the cursor is never executed.                  *)

C22_FlipAlwaysHasPreTrendEnd ==
    /\ cycle_dict.main_trend \in {"boom", "bust"} =>
           "pre_trend_end" \in DOMAIN cycle_dict
    /\ branch # "flip_cursor"

\* a direction flip in each direction has been stitched
C22_Witness ==
    /\ pc = "done"
    /\ branch = "flip_pre_trend_end"
    /\ \E i \in 1..(Len(boom_bust_list) - 2) :
           /\ boom_bust_list[i].main_trend = "boom"
           /\ boom_bust_list[i + 1].main_trend = "bust"
           /\ boom_bust_list[i + 2].main_trend = "boom"

---------------------------------------------------------------------------
(* C23: on a direction flip the scan's pre_trend_end is never earlier than *)
(* the cursor, which is the previous segment's current end, and is         *)
(* strictly earlier than the scan's end: the previous segment's end never  *)
(* moves backward and the new segment is never empty.                      *)

C23_FlipBounds ==
    [][(Iterated /\ branch' = "flip_pre_trend_end") =>
           /\ Last(boom_bust_list).end = end
           /\ end <= cycle_dict'.pre_trend_end
           /\ cycle_dict'.pre_trend_end < cycle_dict'.end
           /\ boom_bust_list'[Len(boom_bust_list)].end >= Last(boom_bust_list).end
           /\ Last(boom_bust_list').start < Last(boom_bust_list').end]_vars

\* a flip whose pre_trend_end lay strictly after the cursor has been stitched
C23_Witness ==
    /\ pc = "loop"
    /\ branch = "flip_pre_trend_end"
    /\ Len(boom_bust_list) >= 2
    /\ provenance[Len(provenance) - 1].moved

---------------------------------------------------------------------------
(* C24: for inputs with pairwise distinct times and positive prices every  *)
(* segment of the list starts strictly before it ends, after every loop    *)
(* iteration and in the returned list.                                     *)

C24_SegmentsNonEmpty ==
    \A i \in 1..Len(boom_bust_list) :
        boom_bust_list[i].start < boom_bust_list[i].end

\* a returned list of four segments whose input was given in descending order
C24_Witness ==
    /\ pc = "done"
    /\ Len(boom_bust_list) >= 4
    /\ observations # sort_values(observations)
    /\ iterations = 4

---------------------------------------------------------------------------
(* C26: for an input of exactly one observation boom_bust_periods never    *)
(* enters its loop: it returns an empty list and boom_bust_one_period is   *)
(* never invoked.                                                          *)

C26_SingleObservation ==
    (Len(observations) = 1 /\ pc \in {"loop", "done", "projected"}) =>
        /\ iterations = 0
        /\ cycle_dict = [main_trend |-> "unset"]
        /\ boom_bust_list = <<>>
        /\ ~(end < iloc_last_time(time_price))

\* the call on a single observation has returned
C26_Witness ==
    /\ pc = "done"
    /\ Len(observations) = 1
    /\ boom_bust_list = <<>>

---------------------------------------------------------------------------
(* C25: for every non-empty window of integer prices, whatever the sign of *)
(* its first price, every price and time index boom_bust_one_period reads  *)
(* lies between 0 and the window length - 1; in particular the extension   *)
(* walk never starts from index -1.                                        *)

HasBothColumns(df) == Len(df) > 0 /\ {"price", "time"} \subseteq Columns(df)

\* C25 as stated: violated by every window whose first price is negative
C25_IndexReadsInRange ==
    (pc \in {"validated", "returned", "raised"} /\ HasBothColumns(time_price)) =>
        /\ IndexReads(time_price, boom_change, bust_change)
               \subseteq 0..(Len(time_price) - 1)
        /\ CrossingArm(time_price, boom_change, bust_change).cycle_end >= 0
        /\ pc # "raised"

---------------------------------------------------------------------------
(* C27: when the batch loop of query_swaps_trading_v2 has ended, the       *)
(* accumulated swaps, once those with timestamp >= end_timestamp are       *)
(* dropped, are exactly the subgraph's swaps with start_timestamp <=       *)
(* timestamp < end_timestamp, each fetched exactly once, whatever the      *)
(* batch size and however many swaps share a timestamp.                    *)

InRange(swap) ==
    /\ start_timestamp <= int(swap.timestamp)
    /\ int(swap.timestamp) < end_timestamp

\* C27 as stated: violated when a batch ends inside a run of swaps that share
\* a timestamp
C27_ExactlyTheRange ==
    pc = "dropped" => df_all_swaps = SelectSeq(subgraph, InRange)

---------------------------------------------------------------------------
(* C28: _sorting assigns every row of the period to exactly one portfolio  *)
(* among P1..Pn_port: the rows of the returned frame are exactly the input *)
(* rows, none dropped and none duplicated, with zero_value_portfolio=True  *)
(* (zero lagged-factor rows in P1) as with zero_value_portfolio=False.     *)

Occurrences(df, label) == Cardinality({j \in 1..Len(df) : df[j].index = label})

\* C28 as stated: violated with zero_value_portfolio=True, which leaves out a
\* slice of the non-zero rows
C28_SortingPartitions ==
    pc = "sorted" =>
        /\ Len(df_portfolio) = Len(df_panel_period)
        /\ \A i \in 1..Len(df_panel_period) :
               Occurrences(df_portfolio, df_panel_period[i].index) = 1
        /\ \A j \in 1..Len(df_portfolio) :
               /\ df_portfolio[j].portfolio
                      \in {PortfolioName(port) : port \in 1..n_port}
               /\ (zero_value_portfolio /\ df_portfolio[j].lag = 0) =>
                      df_portfolio[j].portfolio = "P1"

---------------------------------------------------------------------------
(* C29: in asset_pricing, after each period of date_list is processed, all *)
(* lists of ret_dict (P1..Pn_port, freq and mret) have the same length,    *)
(* the number of periods processed so far, whatever portfolios are         *)
(* non-empty in that period.                                               *)

\* C29 as stated: violated by a period in which some portfolio has no row
C29_ListsInStep ==
    pc = "periods" => \A k \in DOMAIN ret_dict : Len(ret_dict[k]) = processed

=============================================================================
